---- MODULE Spec2Model ----
(***************************************************************************)
(* A model of the two file adapters of the photogrammetry importer:        *)
(*   - NVMFileHandler      (src/nvm_import_export/nvm_file_handler.py)     *)
(*   - MeshroomFileHandler (src/photogrammetry_importer/file_handlers/     *)
(*                          meshroom_file_handler.py)                      *)
(*                                                                         *)
(* Text is modelled by its tokens.  A line is a record                     *)
(*   [eof, lead, toks, trail]                                              *)
(* eof   : the line is what readline() returns at end of file ('')         *)
(* lead  : the line starts with whitespace                                 *)
(* toks  : the whitespace separated tokens of the line                     *)
(* trail : whitespace (other than the newline) follows the last token      *)
(* A token is a record [k, v]: k is the lexical form, v the number the     *)
(* token denotes.  Floats are modelled by integer values; a float literal  *)
(* ('2.0') and an integer literal ('2') are different tokens.              *)
(***************************************************************************)
EXTENDS Integers, Sequences, FiniteSets, TLC

VARIABLES
  \* ---- NVM adapter
  mode,            \* "file": parse_nvm_file on some file; "roundtrip": write then parse
  inCameras,       \* cameras handed to write_nvm_file
  inPoints,        \* points handed to write_nvm_file
  file,            \* the lines write_nvm_file wrote (roundtrip mode)
  pos,             \* number of readline() calls made by parse_nvm_file
  line,            \* the line the last readline() call returned
  pc,              \* position of parse_nvm_file / write_nvm_file
  amount_cameras,  \* local of parse_nvm_file
  amount_points,   \* local of parse_nvm_file
  cameras,         \* cameras parsed so far; the returned list when pc = "done"
  points,          \* points parsed so far; the returned list when pc = "done"
  \* ---- Meshroom adapter
  mpc,             \* position of the running MeshroomFileHandler call
  log,             \* what log_report has been given, in order
  json_data,       \* the document json.load returned to parse_sfm_file
  cams,            \* cameras built so far; the returned list when mpc = "done"
  image_index_to_camera_index,
  mpoints,         \* points returned by parse_sfm_file
  sfm_node_type, sfm_node_number, mesh_node_type, mesh_node_number,
  graph,           \* keys of json_data["graph"] of the .mg file, as far as inspected
  inspected,       \* node types whose keys have been inspected
  disk,            \* files of the MeshroomCache folder found to exist
  calls,           \* the _get_node_data_fp calls made so far, with their results
  sfm_fp, mesh_fp, \* locals / results of parse_meshrom_mg_file
  meshroom_pc,     \* position of parse_meshroom_file
  meshroom_ifp,    \* argument / local of parse_meshroom_file: the file to parse
  result_mesh_fp,  \* local mesh_fp of parse_meshroom_file; returned when it is done
  \* ---- both adapters
  handles          \* the files that have been opened and not (yet) closed

nvmVars == <<mode, inCameras, inPoints, file, pos, line, pc,
             amount_cameras, amount_points, cameras, points>>

sfmVars == <<json_data, cams, image_index_to_camera_index, mpoints>>

mgVars == <<sfm_node_type, sfm_node_number, mesh_node_type, mesh_node_number,
            graph, inspected, disk, calls, sfm_fp, mesh_fp>>

dispatchVars == <<meshroom_pc, meshroom_ifp, result_mesh_fp>>

meshroomVars == <<mpc, log, sfmVars, mgVars, dispatchVars>>

vars == <<nvmVars, meshroomVars, handles>>

\* ------------------------------------------------------------------ bounds
\* largest camera / point count a count line declares, and longest camera and
\* point list handed to the writer
MaxCount == 2
\* largest number of measurements of a point
MaxMeasurements == 2

\* ------------------------------------------------------------------ tokens
Tok(k, v) == [k |-> k, v |-> v]

\* the literal NVM_V3
NVM_V3 == Tok("nvm", 0)
\* a plain word, e.g. an image file name
Word(v) == Tok("word", v)
\* a file name with a directory part, e.g. dir/img1.jpg
Path(v) == Tok("path", v)
\* a decimal integer literal, '-' sign when negative
IntLit(v) == Tok("int", v)
\* a float literal as str(float) prints it, e.g. 2.0
FloatLit(v) == Tok("flt", v)
\* a superscript digit, e.g. U+00B2
SupDigit(v) == Tok("sup", v)
\* one whitespace separated piece of str(Measurement(...)), e.g.
\* 'Measurement(image_index=0,' or 'x=2.0,'
ReprPiece(v) == Tok("repr", v)

Line(toks, lead, trail) == [eof |-> FALSE, lead |-> lead, toks |-> toks, trail |-> trail]

\* readline() at end of file returns ''
EofLine == [eof |-> TRUE, lead |-> FALSE, toks |-> <<>>, trail |-> FALSE]

\* ------------------------------------------------------------------ python primitives
Min(a, b) == IF a < b THEN a ELSE b

\* s[a:b] of Python, 0 <= a <= b: never fails, shorter when s is short
Slice(s, a, b) ==
  IF a >= Min(b, Len(s)) THEN <<>> ELSE SubSeq(s, a + 1, Min(b, Len(s)))

\* str.rstrip(): a line of whitespace only becomes ''
rstrip(l) ==
  IF l.toks = <<>>
    THEN [eof |-> l.eof, lead |-> FALSE, toks |-> <<>>, trail |-> FALSE]
    ELSE [l EXCEPT !.trail = FALSE]

\* str.split()
split(l) == l.toks

\* s.startswith('NVM_V3') in place of the comparison
StartsWithNVMHeader(s) == s.toks # <<>> /\ s.toks[1] = NVM_V3 /\ ~s.lead

\* s == 'NVM_V3'
IsNVMHeader(s) == s.toks = <<NVM_V3>> /\ ~s.lead /\ ~s.trail

\* s == ''
IsEmptyString(s) == s.toks = <<>> /\ ~s.lead /\ ~s.trail

\* int(token) succeeds
IntOk(t) == t.k = "int"

\* float(token) succeeds
FloatOk(t) == t.k \in {"int", "flt"}

\* str.isdigit(): every character is a digit, at least one character.
\* Superscript digits are digits for isdigit(), a sign or a blank is not.
isdigit(s) ==
  /\ ~s.lead /\ ~s.trail /\ Len(s.toks) = 1
  /\ \/ s.toks[1].k = "int" /\ s.toks[1].v >= 0
     \/ s.toks[1].k = "sup"

\* int(s) of a whole (stripped or not) line succeeds: int() ignores blanks around
IntOfLineOk(s) == Len(s.toks) = 1 /\ IntOk(s.toks[1])

IntOfLine(s) == s.toks[1].v

\* os.path.basename of a token
basename(t) == IF t.k = "path" THEN Word(t.v) ELSE t

\* str(x) of a float / of an int
StrFloat(x) == FloatLit(x)
StrInt(x) == IntLit(x)

\* ------------------------------------------------------------------ Camera (nvm_import_export.camera)
Dot4(q) == q[1] * q[1] + q[2] * q[2] + q[3] * q[3] + q[4] * q[4]

\* Camera.set_quaternion: the rotation matrix of the normalised quaternion
\* (w, x, y, z).  The quaternions of the model are those whose matrix is integral.
quaternion_to_rotation_matrix(q) ==
  LET n == Dot4(q)
      w == q[1]
      x == q[2]
      y == q[3]
      z == q[4]
  IN << << (w*w + x*x - y*y - z*z) \div n, (2*x*y - 2*z*w) \div n, (2*y*w + 2*z*x) \div n >>,
        << (2*x*y + 2*w*z) \div n, (y*y + w*w - z*z - x*x) \div n, (2*z*y - 2*x*w) \div n >>,
        << (2*x*z - 2*y*w) \div n, (2*y*z + 2*w*x) \div n, (z*z + w*w - y*y - x*x) \div n >> >>

\* t = -R c, written with a missing sign
TranslationNoNegation(c, R) ==
  [j \in 1..3 |-> R[j][1] * c[1] + R[j][2] * c[2] + R[j][3] * c[3]]

\* NVMFileHandler.compute_camera_coordinate_system_translation_vector
compute_camera_coordinate_system_translation_vector(c, R) ==
  [j \in 1..3 |-> -(R[j][1] * c[1] + R[j][2] * c[2] + R[j][3] * c[3])]

\* np.linalg.inv(R).dot([0, 0, 1]) for a rotation matrix R: the inverse is the transpose
cam_view_vec_world_coord(R) == <<R[3][1], R[3][2], R[3][3]>>

\* ------------------------------------------------------------------ _parse_cameras, one line
\* the loop body without `assert(zero_value == 0)`
CameraLineOkNoAssert(l) ==
  LET line_values == split(l)
  IN /\ Len(line_values) >= 11
     /\ \A i \in 2..11 : FloatOk(line_values[i])

\* the statements of the loop body succeed: line_values[0..10] exist, fields 1..10
\* convert with float(), and the assert on the 11th field holds
CameraLineOk(l) ==
  LET line_values == split(l)
  IN /\ Len(line_values) >= 11
     /\ \A i \in 2..11 : FloatOk(line_values[i])
     /\ line_values[11].v = 0

ParseCameraLine(l, i) ==
  LET line_values == split(l)
      focal_length == line_values[2].v
      quaternion == <<line_values[3].v, line_values[4].v, line_values[5].v, line_values[6].v>>
      center_vec == <<line_values[7].v, line_values[8].v, line_values[9].v>>
      rotation == quaternion_to_rotation_matrix(quaternion)
  IN [ id |-> i,
       file_name |-> basename(line_values[1]),
       quaternion |-> quaternion,
       rotation |-> rotation,
       center |-> center_vec,
       normal |-> cam_view_vec_world_coord(rotation),
       translation |-> compute_camera_coordinate_system_translation_vector(center_vec, rotation),
       calibration_mat |-> << <<focal_length, 0, 0>>, <<0, focal_length, 0>>, <<0, 0, 1>> >> ]

\* ------------------------------------------------------------------ _parse_nvm_points, one line
\* measurements[measurement_index*4:(measurement_index+1)*4]
current_measurement(measurements, measurement_index) ==
  Slice(measurements, measurement_index * 4, (measurement_index + 1) * 4)

\* indexing [0]..[3] and the four conversions succeed
MeasurementOk(cm) ==
  /\ Len(cm) >= 4
  /\ IntOk(cm[1]) /\ IntOk(cm[2]) /\ FloatOk(cm[3]) /\ FloatOk(cm[4])

Measurement(cm) ==
  [image_index |-> cm[1].v, feature_index |-> cm[2].v, x |-> cm[3].v, y |-> cm[4].v]

\* the measurement loop stops early when the tokens run out, instead of failing
MeasurementCountTolerant(elems) ==
  Min(elems[7].v, (Len(elems) - 7) \div 4)

\* range(0, number_measurements)
MeasurementCount(elems) == elems[7].v

PointLineOk(l) ==
  LET elems == split(rstrip(l))
  IN /\ \A i \in 1..Len(Slice(elems, 0, 3)) : FloatOk(elems[i])
     /\ \A i \in 1..Len(Slice(elems, 3, 6)) : IntOk(Slice(elems, 3, 6)[i])
     /\ Len(elems) >= 7
     /\ IntOk(elems[7])
     /\ \A mi \in 0..(MeasurementCount(elems) - 1) :
          MeasurementOk(current_measurement(Slice(elems, 7, Len(elems)), mi))

ParsePointLine(l, point_index) ==
  LET elems == split(rstrip(l))
      xyz == Slice(elems, 0, 3)
      rgb == Slice(elems, 3, 6)
      measurements == Slice(elems, 7, Len(elems))
  IN [ coord |-> [i \in 1..Len(xyz) |-> xyz[i].v],
       color |-> [i \in 1..Len(rgb) |-> rgb[i].v],
       measurements |->
         [m \in 1..MeasurementCount(elems) |->
            Measurement(current_measurement(measurements, m - 1))],
       id |-> point_index ]

\* ------------------------------------------------------------------ write_nvm_file
\* NVMFileHandler.nvm_line: content + ' ' + os.linesep
nvm_line(toks) ==
  IF toks = <<>> THEN Line(<<>>, TRUE, FALSE) ELSE Line(toks, FALSE, TRUE)

\* ' ' + os.linesep
BlankOut == Line(<<>>, TRUE, FALSE)

\* str(measurement) of the namedtuple:
\* 'Measurement(image_index=0, feature_index=1, x=2.0, y=3.0)', four pieces
MeasurementStr(m) ==
  <<ReprPiece(m.image_index), ReprPiece(m.feature_index), ReprPiece(m.x), ReprPiece(m.y)>>

\* the tokens appended by the loop over point.measurements
MeasurementTokens(ms) ==
  [i \in 1..(4 * Len(ms)) |-> MeasurementStr(ms[((i - 1) \div 4) + 1])[((i - 1) % 4) + 1]]

\* one camera line: file_name \t focal quaternion center 0 0
CameraOut(camera) ==
  Line(<<camera.file_name, StrFloat(camera.calibration_mat[1][1])>>
         \o [i \in 1..4 |-> StrFloat(camera.quaternion[i])]
         \o [i \in 1..3 |-> StrFloat(camera.center[i])]
         \o <<IntLit(0), IntLit(0)>>,
       FALSE, TRUE)

\* one point line: xyz rgb count measurements
PointOut(point) ==
  Line([i \in 1..Len(point.coord) |-> StrFloat(point.coord[i])]
         \o [i \in 1..Len(point.color) |-> StrInt(point.color[i])]
         \o <<StrInt(Len(point.measurements))>>
         \o MeasurementTokens(point.measurements),
       FALSE, TRUE)

\* the fixed trailer; a comment line is modelled by its first word
Trailer ==
  << BlankOut, BlankOut, BlankOut, Line(<<IntLit(0)>>, FALSE, FALSE), BlankOut,
     Line(<<Word(901)>>, FALSE, TRUE), Line(<<Word(902)>>, FALSE, TRUE),
     Line(<<Word(903)>>, FALSE, TRUE), Line(<<IntLit(0)>>, FALSE, FALSE) >>

nvm_content(cs, ps) ==
  << nvm_line(<<NVM_V3>>), nvm_line(<<>>), nvm_line(<<StrInt(Len(cs))>>) >>
    \o [i \in 1..Len(cs) |-> CameraOut(cs[i])]
    \o << BlankOut, Line(<<StrInt(Len(ps))>>, FALSE, TRUE) >>
    \o [i \in 1..Len(ps) |-> PointOut(ps[i])]
    \o Trailer

\* ------------------------------------------------------------------ inputs
SeqUpTo(S, n) == UNION {[1..k -> S] : k \in 0..n}

\* quaternions (w, x, y, z): identity, 90 degrees about x, 120 degrees about (1,1,1)
QuatSet == { <<1, 0, 0, 0>>, <<1, 1, 0, 0>>, <<1, 1, 1, 1>> }

CenterSet == { <<1, 2, 3>> }

\* cameras handed to the writer: set up with set_quaternion, so the rotation
\* is the quaternion's
CameraSet ==
  { [ file_name |-> Word(1), quaternion |-> q,
      rotation |-> quaternion_to_rotation_matrix(q),
      center |-> c,
      calibration_mat |-> << <<2, 0, 0>>, <<0, 2, 0>>, <<0, 0, 1>> >> ]
    : q \in QuatSet, c \in CenterSet }

\* the k-th measurement of the model's points
MeasurementAt(k) == [image_index |-> k - 1, feature_index |-> 10 + k, x |-> k, y |-> k + 1]

PointSet ==
  { [ coord |-> <<1, 2, 3>>, color |-> <<0, 128, 255>>,
      measurements |-> [k \in 1..K |-> MeasurementAt(k)] ]
    : K \in 0..MaxMeasurements }

\* a camera line with every number written as a token of form k ("flt" or "int")
CamLine(name, f, q, c, rd, z, k) ==
  Line(<<name, Tok(k, f), Tok(k, q[1]), Tok(k, q[2]), Tok(k, q[3]), Tok(k, q[4]),
         Tok(k, c[1]), Tok(k, c[2]), Tok(k, c[3]), Tok(k, rd), Tok(k, z)>>, FALSE, FALSE)

CameraLines ==
  { CamLine(Word(1), 2, q, c, 0, 0, "flt") : q \in QuatSet, c \in CenterSet }
    \cup { \* img001.jpg 1000 1 0 0 0 0 0 0 0 0, with a directory in the name
           CamLine(Path(2), 1000, <<1, 0, 0, 0>>, <<0, 0, 0>>, 0, 0, "int"),
           \* 11th field not 0
           CamLine(Word(1), 2, <<1, 0, 0, 0>>, <<1, 2, 3>>, 0, 1, "flt"),
           \* 10 fields
           Line(<<Word(1), FloatLit(2), FloatLit(1), FloatLit(0), FloatLit(0), FloatLit(0),
                  FloatLit(1), FloatLit(2), FloatLit(3), FloatLit(0)>>, FALSE, FALSE),
           \* focal length not a number
           Line(<<Word(1), Word(3), FloatLit(1), FloatLit(0), FloatLit(0), FloatLit(0),
                  FloatLit(1), FloatLit(2), FloatLit(3), FloatLit(0), IntLit(0)>>, FALSE, FALSE) }

\* the j-th token of a well-formed measurement list
MeasTok(j) ==
  LET m == (j - 1) \div 4
      r == (j - 1) % 4
  IN CASE r = 0 -> IntLit(m)
       [] r = 1 -> IntLit(10 + m)
       [] r = 2 -> FloatLit(m + 1)
       [] OTHER -> FloatLit(m + 2)

PointHead(K) ==
  <<FloatLit(1), FloatLit(2), FloatLit(3), IntLit(0), IntLit(128), IntLit(255), K>>

\* a point line declaring K measurements and carrying n tokens after the count
PointLine(K, n) == Line(PointHead(IntLit(K)) \o [j \in 1..n |-> MeasTok(j)], FALSE, TRUE)

PointLines ==
  { PointLine(K, n) : K \in 0..MaxMeasurements, n \in 0..(4 * MaxMeasurements + 1) }
    \cup { \* negative count
           PointLine(-1, 0),
           \* a colour channel printed as a float
           Line(<<FloatLit(1), FloatLit(2), FloatLit(3), FloatLit(0), IntLit(128), IntLit(255),
                  IntLit(0)>>, FALSE, FALSE),
           \* no measurement count
           Line(<<FloatLit(1), FloatLit(2), FloatLit(3), IntLit(0), IntLit(128), IntLit(255)>>,
                FALSE, FALSE),
           \* measurement count not an integer
           Line(PointHead(FloatLit(1)) \o [j \in 1..4 |-> MeasTok(j)], FALSE, FALSE),
           \* image index printed as a float
           Line(PointHead(IntLit(1)) \o <<FloatLit(0), IntLit(10), FloatLit(1), FloatLit(2)>>,
                FALSE, FALSE) }

HeaderLines ==
  { Line(<<NVM_V3>>, FALSE, FALSE), Line(<<NVM_V3>>, FALSE, TRUE),
    Line(<<NVM_V3>>, TRUE, FALSE), Line(<<NVM_V3, Word(4)>>, FALSE, FALSE),
    Line(<<Word(4)>>, FALSE, FALSE) }

BlankLines == { EofLine, Line(<<>>, FALSE, FALSE), Line(<<>>, TRUE, FALSE) }

CountLines ==
  { Line(<<IntLit(n)>>, FALSE, TRUE) : n \in (-1)..MaxCount }
    \cup { Line(<<IntLit(1)>>, TRUE, FALSE), Line(<<FloatLit(1)>>, FALSE, FALSE),
           Line(<<SupDigit(2)>>, FALSE, FALSE), Line(<<IntLit(1), IntLit(1)>>, FALSE, FALSE) }

\* the lines a file may hold
AllLines == HeaderLines \cup BlankLines \cup CountLines \cup CameraLines \cup PointLines

\* ------------------------------------------------------------------ Meshroom: SfM / JSON
\* identifiers (poseId, intrinsicId, landmarkId) used by the documents of the model
Ids == {1, 2}

\* longest views / intrinsics / poses / structure list of a document
MaxList == 2

None == [none |-> TRUE]

\* log_report(level, message, op)
LogEntry(level, msg) == [level |-> level, msg |-> msg]

\* the entries of a list carry their position, so that equal identifiers of
\* different entries stay apart (a view's path, an intrinsic's focal length)
Views ==
  { [i \in 1..Len(s) |-> [poseId |-> s[i][1], intrinsicId |-> s[i][2], path |-> i]]
    : s \in SeqUpTo(Ids \X Ids, MaxList) }

Intrinsics ==
  { [i \in 1..Len(s) |-> [intrinsicId |-> s[i], pxFocalLength |-> 100 + i]]
    : s \in SeqUpTo(Ids, MaxList) }

Poses ==
  { [i \in 1..Len(s) |-> [poseId |-> s[i], center |-> i]] : s \in SeqUpTo(Ids, MaxList) }

Structures ==
  { [i \in 1..Len(s) |-> [landmarkId |-> s[i], X |-> i]] : s \in SeqUpTo(Ids, MaxList) }

\* a JSON document: the top-level keys it has, and their values
JsonDocument(ks, v, n, p, st) ==
  [keys |-> ks, views |-> v, intrinsics |-> n, poses |-> p, structure |-> st]

\* the values a document may hold under key k: one of vals when it has the
\* key, nothing when it has not
ValuesOf(ks, k, vals) == IF k \in ks THEN vals ELSE {<<>>}

\* the position of the first entry of data_list with int(ele[id_string]) == query_id,
\* 0 when the loop ends without a match
FirstMatch(data_list, id_string, query_id) ==
  LET hits == {i \in 1..Len(data_list) : data_list[i][id_string] = query_id}
  IN IF hits = {} THEN 0 ELSE CHOOSE i \in hits : \A j \in hits : i <= j

\* the lookup with the assert removed: None when nothing matches
get_element_unchecked(data_list, id_string, query_id) ==
  LET i == FirstMatch(data_list, id_string, query_id)
  IN [failed |-> FALSE,
      result |-> IF i = 0 THEN [poseId |-> 0, intrinsicId |-> 0, path |-> 0,
                                pxFocalLength |-> 0]
                          ELSE data_list[i]]

\* MeshroomFileHandler._get_element: failed when `assert result is not None` fails
get_element(data_list, id_string, query_id) ==
  LET i == FirstMatch(data_list, id_string, query_id)
  IN IF i = 0 THEN [failed |-> TRUE, result |-> None]
              ELSE [failed |-> FALSE, result |-> data_list[i]]

\* the validity test passing as soon as one of the keys is there
is_valid_file_any(d) == {"views", "intrinsics", "poses"} \cap d.keys # {}

\* "views" in json_data and "intrinsics" in json_data and "poses" in json_data
is_valid_file(d) == {"views", "intrinsics", "poses"} \subseteq d.keys

\* the camera of one pose, from its view and its intrinsic; width, height, principal
\* point, distortion and rotation are copied from the same three records and are
\* left out
MeshroomCamera(extrinsic, corresponding_view, intrinsic_params) ==
  [ view_index |-> extrinsic.poseId,
    absolute_fp |-> corresponding_view.path,
    undistorted_relative_fp |-> extrinsic.poseId,
    intrinsicId |-> corresponding_view.intrinsicId,
    focal_length |-> intrinsic_params.pxFocalLength,
    center |-> extrinsic.center ]

\* MeshroomFileHandler._parse_points_from_json_data, "structure" present
parse_points_from_json_data(d) ==
  [i \in 1..Len(d.structure) |->
     [coord |-> d.structure[i].X, id |-> d.structure[i].landmarkId]]

\* ------------------------------------------------------------------ Meshroom: project graph
\* largest instance number of a node key of the graph
MaxInstance == 2

Instances == 1..MaxInstance

\* node_type + "_" + str(n)
Key(node_type, n) == <<node_type, n>>

\* json_graph[key]: the node's type and its uids["0"]
NodeRecord(key) == [nodeType |-> key[1], uid |-> key[2]]

NoNode == [nodeType |-> "None", uid |-> 0]

\* os.path.join(cache_dp, node_type, uid_0, fn)
DataFp(node, fn) == [nodeType |-> node.nodeType, uid |-> node.uid, fn |-> fn]

NoPath == [nodeType |-> "None", uid |-> 0, fn |-> "None"]

\* the loop of _get_latest_node, from its counter i
RECURSIVE LatestIndex(_, _, _)
LatestIndex(json_graph, node_type, i) ==
  IF Key(node_type, i + 1) \in json_graph
    THEN LatestIndex(json_graph, node_type, i + 1)
    ELSE i

\* the node of the highest instance number in the graph, gaps or not
get_highest_node(json_graph, node_type) ==
  LET present == {n \in Instances : Key(node_type, n) \in json_graph}
  IN IF present = {} THEN NoNode
     ELSE NodeRecord(Key(node_type, CHOOSE n \in present : \A m \in present : m <= n))

\* MeshroomFileHandler._get_latest_node
get_latest_node(json_graph, node_type) ==
  LET i == LatestIndex(json_graph, node_type, 0)
  IN IF i = 0 THEN NoNode ELSE NodeRecord(Key(node_type, i))

\* _get_node returning None for a key that is not in the graph
get_node_lenient(json_graph, node_type, node_number) ==
  IF node_number = -1
    THEN [failed |-> FALSE, node |-> get_latest_node(json_graph, node_type)]
    ELSE IF Key(node_type, node_number) \in json_graph
           THEN [failed |-> FALSE, node |-> NodeRecord(Key(node_type, node_number))]
           ELSE [failed |-> FALSE, node |-> NoNode]

\* MeshroomFileHandler._get_node: failed when it logs the error and asserts False
get_node(json_graph, node_type, node_number) ==
  IF node_number = -1
    THEN [failed |-> FALSE, node |-> get_latest_node(json_graph, node_type)]
    ELSE IF Key(node_type, node_number) \in json_graph
           THEN [failed |-> FALSE, node |-> NodeRecord(Key(node_type, node_number))]
           ELSE [failed |-> TRUE, node |-> NoNode]

\* MeshroomFileHandler._get_data_fp_of_node: the first file name of fn_list that
\* os.path.isfile finds in the node's folder
get_data_fp_of_node(files, data_node, fn_list) ==
  LET found == {i \in 1..Len(fn_list) : DataFp(data_node, fn_list[i]) \in files}
  IN IF data_node = NoNode \/ found = {}
       THEN NoPath
       ELSE DataFp(data_node, fn_list[CHOOSE i \in found : \A j \in found : i <= j])

\* the file names parse_meshrom_mg_file passes for each node type
FileNames(node_type) ==
  CASE node_type = "ConvertSfMFormat" -> <<"sfm.sfm", "sfm.json">>
    [] node_type = "StructureFromMotion" -> <<"cameras.sfm">>
    [] node_type = "Texturing" -> <<"texturedMesh.obj">>
    [] node_type = "MeshFiltering" -> <<"mesh.obj">>
    [] node_type = "Meshing" -> <<"mesh.obj">>

\* AUTOMATIC for the mesh file with MeshFiltering tried before Texturing
MeshOrderFilteringFirst == <<"MeshFiltering", "Texturing", "Meshing">>

\* the node types AUTOMATIC tries for the SfM file, in the order of the calls
SfmOrder == <<"ConvertSfMFormat", "StructureFromMotion">>

\* the node types AUTOMATIC tries for the mesh file, in the order of the calls
MeshOrder == <<"Texturing", "MeshFiltering", "Meshing">>

\* the values of the sfm_node_type / mesh_node_type selectors; "Other" is any
\* value the handler does not know
SfmSelectors == {"ConvertSfMFormatNode", "StructureFromMotionNode", "AUTOMATIC", "Other"}
MeshSelectors == {"Texturing", "MeshFiltering", "Meshing", "AUTOMATIC", "Other"}

\* node numbers: -1 for the latest node, or an instance number
NodeNumbers == {-1} \cup Instances

\* parse_sfm_file has read nothing
SfmIdle ==
  /\ json_data = JsonDocument({}, <<>>, <<>>, <<>>, <<>>)
  /\ cams = <<>>
  /\ image_index_to_camera_index = <<>>
  /\ mpoints = <<>>

\* parse_meshrom_mg_file has inspected nothing
MgIdle ==
  /\ graph = {}
  /\ inspected = {}
  /\ disk = {}
  /\ calls = <<>>
  /\ sfm_fp = NoPath
  /\ mesh_fp = NoPath

\* parse_meshroom_file is not running
DispatchIdle ==
  /\ meshroom_pc = "idle"
  /\ meshroom_ifp = NoPath
  /\ result_mesh_fp = NoPath

\* no MeshroomFileHandler call is running
MeshroomIdle ==
  /\ mpc = "idle"
  /\ DispatchIdle
  /\ log = <<>>
  /\ SfmIdle
  /\ sfm_node_type = "AUTOMATIC"
  /\ sfm_node_number = -1
  /\ mesh_node_type = "AUTOMATIC"
  /\ mesh_node_number = -1
  /\ MgIdle

\* no NVMFileHandler call is running
NvmIdle ==
  /\ mode = "idle"
  /\ inCameras = <<>>
  /\ inPoints = <<>>
  /\ pc = "idle"
  /\ file = <<>>
  /\ pos = 0
  /\ line = Line(<<>>, FALSE, FALSE)
  /\ amount_cameras = 0
  /\ amount_points = 0
  /\ cameras = <<>>
  /\ points = <<>>

\* ------------------------------------------------------------------ state machine
\* `line` before the first readline()
NoLine == Line(<<>>, FALSE, FALSE)

InitParser ==
  /\ file = <<>>
  /\ pos = 0
  /\ line = NoLine
  /\ amount_cameras = 0
  /\ amount_points = 0
  /\ cameras = <<>>
  /\ points = <<>>

\* parse_nvm_file is called on some file
Init ==
  /\ mode = "file"
  /\ inCameras = <<>>
  /\ inPoints = <<>>
  /\ pc = "header1"
  /\ InitParser
  /\ MeshroomIdle
  /\ handles = {}

\* write_nvm_file is called on some cameras and points, parse_nvm_file on its output
InitRoundTrip ==
  /\ mode = "roundtrip"
  /\ inCameras \in SeqUpTo(CameraSet, MaxCount)
  /\ inPoints \in SeqUpTo(PointSet, MaxCount)
  /\ pc = "write"
  /\ InitParser
  /\ MeshroomIdle
  /\ handles = {}

\* ------------------------------------------------------------------ file handles
\* No call closes a file it opened.  A file object is closed by its finaliser when
\* the interpreter reclaims it: right at the return of the call that held it in a
\* local on a reference counting interpreter, some time later on a tracing one.
\* So after a normal return the handle may be closed or still open.  After an
\* exception the traceback refers to the frame of the call, the local is alive
\* and the handle is open.
AfterCall(open_handles, name, raised) ==
  IF raised THEN {open_handles} ELSE {open_handles, open_handles \ {name}}

\* parse_nvm_file: input_file = open(..., 'r') on entry
InputFileHandle ==
  LET h == IF pc = "header1" THEN handles \cup {"nvm_input_file"} ELSE handles
  IN handles' \in (IF pc' \in {"done", "error"}
                     THEN AfterCall(h, "nvm_input_file", pc' = "error")
                     ELSE {h})

\* write_nvm_file: output_file = open(..., 'wb') as its last but one statement
OutputFileHandle ==
  handles' \in AfterCall(handles \cup {"nvm_output_file"}, "nvm_output_file", FALSE)

\* parse_sfm_file: input_file = open(sfm_ifp, "r") on entry
SfmFileHandle ==
  LET h == IF mpc = "sfm_open" THEN handles \cup {"sfm_input_file"} ELSE handles
  IN handles' \in (IF mpc' \in {"done", "fatal"}
                     THEN AfterCall(h, "sfm_input_file", mpc' = "fatal")
                     ELSE {h})

\* parse_meshrom_mg_file: json.load(open(mg_fp, "r")) on entry.  The file object is
\* a temporary that nothing refers to once json.load has returned, whether the call
\* ends normally or not; what matters is whether it has been closed when the call ends.
MgFileHandle ==
  LET h == IF mpc = "sfm_node" THEN handles \cup {"mg_file"} ELSE handles
  IN handles' \in (IF mpc' \in {"done", "fatal"}
                     THEN AfterCall(h, "mg_file", FALSE)
                     ELSE {h})

\* what input_file.readline() may return: any line of the file being read (after
\* the end of the file only ''), or the next line of the written file
NextLines ==
  IF mode = "file"
    THEN (IF line.eof THEN {EofLine} ELSE AllLines)
    ELSE {IF pos < Len(file) THEN file[pos + 1] ELSE EofLine}

Read(l) ==
  /\ l \in NextLines
  /\ line' = l
  /\ pos' = pos + 1

\* an exception leaves parse_nvm_file: nothing is returned
Raise ==
  /\ pc' = "error"
  /\ cameras' = <<>>
  /\ points' = <<>>
  /\ UNCHANGED <<amount_cameras, amount_points>>

WriteNvmFile ==
  /\ pc = "write"
  /\ file' = nvm_content(inCameras, inPoints)
  /\ pc' = "header1"
  /\ UNCHANGED <<mode, inCameras, inPoints, pos, line, amount_cameras, amount_points,
                 cameras, points>>
  /\ UNCHANGED meshroomVars
  /\ OutputFileHandle

ReadHeader1 ==
  /\ pc = "header1"
  /\ \E l \in NextLines :
       /\ Read(l)
       /\ IF IsNVMHeader(rstrip(l))
            THEN /\ pc' = "header2"
                 /\ UNCHANGED <<amount_cameras, amount_points, cameras, points>>
            ELSE Raise
  /\ UNCHANGED <<mode, inCameras, inPoints, file>>
  /\ UNCHANGED meshroomVars
  /\ InputFileHandle

ReadHeader2 ==
  /\ pc = "header2"
  /\ \E l \in NextLines :
       /\ Read(l)
       /\ IF IsEmptyString(rstrip(l))
            THEN /\ pc' = "amount_cameras"
                 /\ UNCHANGED <<amount_cameras, amount_points, cameras, points>>
            ELSE Raise
  /\ UNCHANGED <<mode, inCameras, inPoints, file>>
  /\ UNCHANGED meshroomVars
  /\ InputFileHandle

ReadCameraCount ==
  /\ pc = "amount_cameras"
  /\ \E l \in NextLines :
       /\ Read(l)
       /\ IF IntOfLineOk(rstrip(l))
            THEN /\ amount_cameras' = IntOfLine(rstrip(l))
                 /\ pc' = IF IntOfLine(rstrip(l)) > 0 THEN "cameras" ELSE "separator"
                 /\ UNCHANGED <<amount_points, cameras, points>>
            ELSE Raise
  /\ UNCHANGED <<mode, inCameras, inPoints, file>>
  /\ UNCHANGED meshroomVars
  /\ InputFileHandle

\* one iteration of the loop of _parse_cameras
ParseCamera ==
  /\ pc = "cameras"
  /\ \E l \in NextLines :
       /\ Read(l)
       /\ IF CameraLineOk(l)
            THEN /\ cameras' = Append(cameras, ParseCameraLine(l, Len(cameras)))
                 /\ pc' = IF Len(cameras) + 1 < amount_cameras THEN "cameras" ELSE "separator"
                 /\ UNCHANGED <<amount_cameras, amount_points, points>>
            ELSE Raise
  /\ UNCHANGED <<mode, inCameras, inPoints, file>>
  /\ UNCHANGED meshroomVars
  /\ InputFileHandle

ReadSeparator ==
  /\ pc = "separator"
  /\ \E l \in NextLines :
       /\ Read(l)
       /\ IF IsEmptyString(rstrip(l))
            THEN /\ pc' = "amount_points"
                 /\ UNCHANGED <<amount_cameras, amount_points, cameras, points>>
            ELSE Raise
  /\ UNCHANGED <<mode, inCameras, inPoints, file>>
  /\ UNCHANGED meshroomVars
  /\ InputFileHandle

ReadPointCount ==
  /\ pc = "amount_points"
  /\ \E l \in NextLines :
       /\ Read(l)
       /\ IF isdigit(rstrip(l))
            THEN IF IntOfLineOk(rstrip(l))
                   THEN /\ amount_points' = IntOfLine(rstrip(l))
                        /\ pc' = IF IntOfLine(rstrip(l)) > 0 THEN "points" ELSE "done"
                        /\ UNCHANGED <<amount_cameras, cameras, points>>
                   ELSE Raise
            ELSE /\ points' = <<>>
                 /\ pc' = "done"
                 /\ UNCHANGED <<amount_cameras, amount_points, cameras>>
  /\ UNCHANGED <<mode, inCameras, inPoints, file>>
  /\ UNCHANGED meshroomVars
  /\ InputFileHandle

\* one iteration of the outer loop of _parse_nvm_points
ParsePoint ==
  /\ pc = "points"
  /\ \E l \in NextLines :
       /\ Read(l)
       /\ IF PointLineOk(l)
            THEN /\ points' = Append(points, ParsePointLine(l, Len(points)))
                 /\ pc' = IF Len(points) + 1 < amount_points THEN "points" ELSE "done"
                 /\ UNCHANGED <<amount_cameras, amount_points, cameras>>
            ELSE Raise
  /\ UNCHANGED <<mode, inCameras, inPoints, file>>
  /\ UNCHANGED meshroomVars
  /\ InputFileHandle

Next ==
  \/ ReadHeader1
  \/ ReadHeader2
  \/ ReadCameraCount
  \/ ParseCamera
  \/ ReadSeparator
  \/ ReadPointCount
  \/ ParsePoint

NextRoundTrip ==
  \/ WriteNvmFile
  \/ Next

\* parse_nvm_file on the files over AllLines
Spec == Init /\ [][Next]_vars

\* write_nvm_file followed by parse_nvm_file on what it wrote
SpecRoundTrip == InitRoundTrip /\ [][NextRoundTrip]_vars

\* ------------------------------------------------------------------ parse_sfm_file
\* parse_sfm_file is called on a file holding some JSON document
InitSfm ==
  /\ NvmIdle
  /\ mpc = "sfm_open"
  /\ log = <<>>
  /\ \E ks \in SUBSET {"views", "intrinsics", "poses", "structure"} :
       \E v \in ValuesOf(ks, "views", Views) :
         \E n \in ValuesOf(ks, "intrinsics", Intrinsics) :
           \E p \in ValuesOf(ks, "poses", Poses) :
             \E st \in ValuesOf(ks, "structure", Structures) :
               json_data = JsonDocument(ks, v, n, p, st)
  /\ cams = <<>>
  /\ image_index_to_camera_index = <<>>
  /\ mpoints = <<>>
  /\ sfm_node_type = "AUTOMATIC"
  /\ sfm_node_number = -1
  /\ mesh_node_type = "AUTOMATIC"
  /\ mesh_node_number = -1
  /\ MgIdle
  /\ DispatchIdle
  /\ handles = {}

\* an AssertionError leaves parse_sfm_file: nothing is returned
SfmRaise ==
  /\ mpc' = "fatal"
  /\ cams' = <<>>
  /\ image_index_to_camera_index' = <<>>
  /\ mpoints' = <<>>
  /\ log' = log

\* parse_sfm_file up to the loop of _parse_cameras_from_json_data: the two INFO
\* reports, json.load, and the test for the three keys
ParseSfmFileBegin ==
  /\ mpc = "sfm_open"
  /\ cams' = <<>>
  /\ image_index_to_camera_index' = <<>>
  /\ IF is_valid_file(json_data)
       THEN /\ log' = log \o << LogEntry("INFO", "parse_sfm_file: ..."),
                               LogEntry("INFO", "sfm_ifp") >>
            /\ mpc' = IF json_data.poses # <<>> THEN "poses" ELSE "structure"
       ELSE /\ log' = log \o << LogEntry("INFO", "parse_sfm_file: ..."),
                               LogEntry("INFO", "sfm_ifp"),
                               LogEntry("ERROR", "FILE FORMAT ERROR: Incorrect SfM/JSON file") >>
            /\ mpc' = "structure"
  /\ UNCHANGED <<json_data, mpoints, mgVars, nvmVars, dispatchVars>>
  /\ SfmFileHandle

\* one iteration of the loop over json_data["poses"]
ParsePose ==
  /\ mpc = "poses"
  /\ LET rec_index == Len(cams)
         extrinsic == json_data.poses[rec_index + 1]
         view_index == extrinsic.poseId
         view == get_element(json_data.views, "poseId", view_index)
     IN IF view.failed
          THEN SfmRaise
          ELSE LET intrinsic ==
                     get_element(json_data.intrinsics, "intrinsicId", view.result.intrinsicId)
               IN IF intrinsic.failed
                    THEN SfmRaise
                    ELSE /\ cams' = Append(cams,
                                      MeshroomCamera(extrinsic, view.result, intrinsic.result))
                         /\ image_index_to_camera_index' =
                              (view_index :> rec_index) @@ image_index_to_camera_index
                         /\ mpc' = IF rec_index + 1 < Len(json_data.poses)
                                     THEN "poses" ELSE "structure"
                         /\ UNCHANGED <<log, mpoints>>
  /\ UNCHANGED <<json_data, mgVars, nvmVars, dispatchVars>>
  /\ SfmFileHandle

\* the rest of parse_sfm_file: the points, the closing INFO report, the return
ParseStructure ==
  /\ mpc = "structure"
  /\ mpoints' = IF "structure" \in json_data.keys
                  THEN parse_points_from_json_data(json_data)
                  ELSE <<>>
  /\ log' = Append(log, LogEntry("INFO", "parse_sfm_file: Done"))
  /\ mpc' = "done"
  /\ UNCHANGED <<json_data, cams, image_index_to_camera_index, mgVars, nvmVars,
                 dispatchVars>>
  /\ SfmFileHandle

NextSfm ==
  \/ ParseSfmFileBegin
  \/ ParsePose
  \/ ParseStructure

SpecSfm == InitSfm /\ [][NextSfm]_vars

\* ------------------------------------------------------------------ parse_meshrom_mg_file
\* parse_meshrom_mg_file is called with some selectors on some project; what the
\* project's graph and cache folder hold is fixed when the call first looks at it
InitMg ==
  /\ NvmIdle
  /\ SfmIdle
  /\ mpc = "sfm_node"
  /\ log = <<>>
  /\ sfm_node_type \in SfmSelectors
  /\ sfm_node_number \in NodeNumbers
  /\ mesh_node_type \in MeshSelectors
  /\ mesh_node_number \in NodeNumbers
  /\ MgIdle
  /\ DispatchIdle
  /\ handles = {}

Range(f) == {f[i] : i \in DOMAIN f}

\* the instance numbers n with node_type_n in the graph
InstancesOf(node_type) ==
  IF node_type \in inspected
    THEN {{n \in Instances : Key(node_type, n) \in graph}}
    ELSE SUBSET Instances

\* MeshroomFileHandler._get_node_data_fp, recorded as the last entry of calls
GetNodeDataFp(node_type, node_number) ==
  \E S \in InstancesOf(node_type) :
    LET json_graph == graph \cup {Key(node_type, n) : n \in S}
        r == get_node(json_graph, node_type, node_number)
        fn_list == FileNames(node_type)
    IN /\ graph' = json_graph
       /\ inspected' = inspected \cup {node_type}
       /\ IF r.failed
            THEN /\ log' = Append(log, LogEntry("ERROR",
                                     "Invalid combination of node type and node number"))
                 /\ disk' = disk
                 /\ calls' = Append(calls,
                      [node_type |-> node_type, node_number |-> node_number,
                       failed |-> TRUE, node |-> NoNode, data_fp |-> NoPath])
            ELSE \E F \in (IF r.node = NoNode THEN {{}} ELSE SUBSET Range(fn_list)) :
                   LET files == disk \cup {DataFp(r.node, fn) : fn \in F}
                   IN /\ log' = log
                      /\ disk' = files
                      /\ calls' = Append(calls,
                           [node_type |-> node_type, node_number |-> node_number,
                            failed |-> FALSE, node |-> r.node,
                            data_fp |-> get_data_fp_of_node(files, r.node, fn_list)])

\* an AssertionError leaves parse_meshrom_mg_file: nothing is returned
MgRaise ==
  /\ mpc' = "fatal"
  /\ sfm_fp' = NoPath
  /\ mesh_fp' = NoPath

LastCall == calls'[Len(calls')]

\* the first branch taken on sfm_node_type
ResolveSfmNode ==
  /\ mpc = "sfm_node"
  /\ IF sfm_node_type \in {"ConvertSfMFormatNode", "StructureFromMotionNode", "AUTOMATIC"}
       THEN /\ GetNodeDataFp(CASE sfm_node_type = "ConvertSfMFormatNode" -> "ConvertSfMFormat"
                               [] sfm_node_type = "StructureFromMotionNode" -> "StructureFromMotion"
                               [] sfm_node_type = "AUTOMATIC" -> SfmOrder[1],
                             sfm_node_number)
            /\ IF LastCall.failed
                 THEN MgRaise
                 ELSE /\ sfm_fp' = LastCall.data_fp
                      /\ mesh_fp' = mesh_fp
                      /\ mpc' = IF sfm_node_type = "AUTOMATIC" /\ LastCall.data_fp = NoPath
                                  THEN "sfm_fallback" ELSE "mesh_node"
       ELSE /\ log' = Append(log, LogEntry("ERROR", "Select SfM node is not supported"))
            /\ MgRaise
            /\ UNCHANGED <<graph, inspected, disk, calls>>
  /\ UNCHANGED <<sfm_node_type, sfm_node_number, mesh_node_type, mesh_node_number,
                 sfmVars, nvmVars, dispatchVars>>
  /\ MgFileHandle

\* AUTOMATIC: `if sfm_fp is None`, the StructureFromMotion node
ResolveSfmFallback ==
  /\ mpc = "sfm_fallback"
  /\ GetNodeDataFp(SfmOrder[2], sfm_node_number)
  /\ IF LastCall.failed
       THEN MgRaise
       ELSE /\ sfm_fp' = LastCall.data_fp
            /\ mesh_fp' = mesh_fp
            /\ mpc' = "mesh_node"
  /\ UNCHANGED <<sfm_node_type, sfm_node_number, mesh_node_type, mesh_node_number,
                 sfmVars, nvmVars, dispatchVars>>
  /\ MgFileHandle

\* the first branch taken on mesh_node_type
ResolveMeshNode ==
  /\ mpc = "mesh_node"
  /\ IF mesh_node_type \in {"Texturing", "MeshFiltering", "Meshing", "AUTOMATIC"}
       THEN /\ GetNodeDataFp(IF mesh_node_type = "AUTOMATIC" THEN MeshOrder[1]
                                                              ELSE mesh_node_type,
                             mesh_node_number)
            /\ IF LastCall.failed
                 THEN MgRaise
                 ELSE /\ mesh_fp' = LastCall.data_fp
                      /\ sfm_fp' = sfm_fp
                      /\ mpc' = IF mesh_node_type = "AUTOMATIC" /\ LastCall.data_fp = NoPath
                                  THEN "mesh_fallback1" ELSE "report"
       ELSE /\ log' = Append(log, LogEntry("ERROR", "Select Mesh node is not supported"))
            /\ MgRaise
            /\ UNCHANGED <<graph, inspected, disk, calls>>
  /\ UNCHANGED <<sfm_node_type, sfm_node_number, mesh_node_type, mesh_node_number,
                 sfmVars, nvmVars, dispatchVars>>
  /\ MgFileHandle

\* AUTOMATIC: first `if mesh_fp is None`, the MeshFiltering node
ResolveMeshFallback1 ==
  /\ mpc = "mesh_fallback1"
  /\ GetNodeDataFp(MeshOrder[2], mesh_node_number)
  /\ IF LastCall.failed
       THEN MgRaise
       ELSE /\ mesh_fp' = LastCall.data_fp
            /\ sfm_fp' = sfm_fp
            /\ mpc' = IF LastCall.data_fp = NoPath THEN "mesh_fallback2" ELSE "report"
  /\ UNCHANGED <<sfm_node_type, sfm_node_number, mesh_node_type, mesh_node_number,
                 sfmVars, nvmVars, dispatchVars>>
  /\ MgFileHandle

\* AUTOMATIC: second `if mesh_fp is None`, the Meshing node
ResolveMeshFallback2 ==
  /\ mpc = "mesh_fallback2"
  /\ GetNodeDataFp(MeshOrder[3], mesh_node_number)
  /\ IF LastCall.failed
       THEN MgRaise
       ELSE /\ mesh_fp' = LastCall.data_fp
            /\ sfm_fp' = sfm_fp
            /\ mpc' = "report"
  /\ UNCHANGED <<sfm_node_type, sfm_node_number, mesh_node_type, mesh_node_number,
                 sfmVars, nvmVars, dispatchVars>>
  /\ MgFileHandle

\* the two INFO reports and the return
ReportAndReturn ==
  /\ mpc = "report"
  /\ log' = log \o
       << LogEntry("INFO", IF sfm_fp # NoPath
                             THEN "Found the following sfm file"
                             ELSE "Request target SfM result does not exist"),
          LogEntry("INFO", IF mesh_fp # NoPath
                             THEN "Found the following mesh file"
                             ELSE "Request target mesh does not exist") >>
  /\ mpc' = "done"
  /\ UNCHANGED <<sfmVars, mgVars, nvmVars, dispatchVars>>
  /\ MgFileHandle

NextMg ==
  \/ ResolveSfmNode
  \/ ResolveSfmFallback
  \/ ResolveMeshNode
  \/ ResolveMeshFallback1
  \/ ResolveMeshFallback2
  \/ ReportAndReturn

SpecMg == InitMg /\ [][NextMg]_vars

\* ------------------------------------------------------------------ parse_meshroom_file
\* the extensions, as written, of the file names parse_meshroom_file is called with
Extensions == {".mg", ".json", ".JSON", ".sfm", ".obj"}

\* the path handed to parse_meshroom_file, known by its extension
GivenFile(e) == [nodeType |-> "Given", uid |-> 0, fn |-> e]

\* a local that has not been assigned
Unbound == [nodeType |-> "Unbound", uid |-> 0, fn |-> "Unbound"]

\* os.path.splitext(meshroom_ifp)[1]
splitext(fp) == fp.fn

\* the extension taken as written
lower_unchanged(e) == e

\* str.lower() on the extensions of the model
lower(e) == IF e = ".JSON" THEN ".json" ELSE e

\* what the SfM file handed on to parse_sfm_file may hold: a reconstruction with
\* one camera and one point, one without 'poses', one whose pose has no view, and
\* one with empty lists and no 'structure'
DispatchDocuments ==
  LET view == [poseId |-> 1, intrinsicId |-> 1, path |-> 1]
      intrinsic == [intrinsicId |-> 1, pxFocalLength |-> 101]
      landmark == [landmarkId |-> 1, X |-> 1]
      all == {"views", "intrinsics", "poses", "structure"}
  IN { JsonDocument(all, <<view>>, <<intrinsic>>, <<[poseId |-> 1, center |-> 1]>>,
                    <<landmark>>),
       JsonDocument(all \ {"poses"}, <<view>>, <<intrinsic>>, <<>>, <<landmark>>),
       JsonDocument(all, <<view>>, <<intrinsic>>, <<[poseId |-> 2, center |-> 1]>>,
                    <<landmark>>),
       JsonDocument(all \ {"structure"}, <<>>, <<>>, <<>>, <<>>) }

\* parse_meshroom_file is called on some file; the node selectors are drawn for a
\* project file only, no other file makes the call look at them
InitMeshroom ==
  /\ NvmIdle
  /\ SfmIdle
  /\ MgIdle
  /\ mpc = "idle"
  /\ log = <<>>
  /\ handles = {}
  /\ meshroom_pc = "begin"
  /\ meshroom_ifp \in {GivenFile(e) : e \in Extensions}
  /\ result_mesh_fp = Unbound
  /\ IF splitext(meshroom_ifp) = ".mg"
       THEN /\ sfm_node_type \in SfmSelectors
            /\ sfm_node_number \in NodeNumbers
            /\ mesh_node_type \in MeshSelectors
            /\ mesh_node_number \in NodeNumbers
       ELSE /\ sfm_node_type = "AUTOMATIC"
            /\ sfm_node_number = -1
            /\ mesh_node_type = "AUTOMATIC"
            /\ mesh_node_number = -1

\* the two INFO reports and the branch on the extension, up to the call of
\* parse_meshrom_mg_file or parse_sfm_file
ParseMeshroomFileBegin ==
  /\ meshroom_pc = "begin"
  /\ log' = log \o << LogEntry("INFO", "parse_meshroom_file: ..."),
                      LogEntry("INFO", "meshroom_ifp") >>
  /\ LET ext == lower(splitext(meshroom_ifp))
     IN IF ext = ".mg"
          THEN /\ meshroom_pc' = "mg"
               /\ mpc' = "sfm_node"
               /\ UNCHANGED <<json_data, result_mesh_fp>>
          ELSE IF ext = ".json" \/ ext = ".sfm"
                 THEN /\ result_mesh_fp' = NoPath
                      /\ meshroom_pc' = "sfm"
                      /\ mpc' = "sfm_open"
                      /\ json_data' \in DispatchDocuments
                 ELSE /\ meshroom_pc' = "fatal"
                      /\ UNCHANGED <<mpc, json_data, result_mesh_fp>>
  /\ UNCHANGED <<meshroom_ifp, cams, image_index_to_camera_index, mpoints, mgVars,
                 nvmVars, handles>>

\* parse_meshrom_mg_file has returned: its two results are assigned, its own
\* locals are gone, and either parse_sfm_file is called on the resolved file or
\* the WARNING is reported and the call returns
ParseMeshroomFileAfterMg ==
  /\ meshroom_pc = "mg"
  /\ mpc = "done"
  /\ meshroom_ifp' = sfm_fp
  /\ result_mesh_fp' = mesh_fp
  /\ graph' = {}
  /\ inspected' = {}
  /\ disk' = {}
  /\ calls' = <<>>
  /\ IF sfm_fp # NoPath
       THEN /\ meshroom_pc' = "sfm"
            /\ mpc' = "sfm_open"
            /\ json_data' \in DispatchDocuments
            /\ UNCHANGED <<log, cams, mpoints>>
       ELSE /\ log' = log \o
                 << LogEntry("WARNING", "Meshroom project does not contain cameras or points"),
                    LogEntry("INFO", "parse_meshroom_file: Done") >>
            /\ cams' = <<>>
            /\ mpoints' = <<>>
            /\ meshroom_pc' = "done"
            /\ UNCHANGED <<mpc, json_data>>
  /\ UNCHANGED <<sfm_fp, mesh_fp, sfm_node_type, sfm_node_number, mesh_node_type,
                 mesh_node_number, image_index_to_camera_index, nvmVars, handles>>

\* parse_sfm_file has returned: the closing INFO report and the return
ParseMeshroomFileEnd ==
  /\ meshroom_pc = "sfm"
  /\ mpc = "done"
  /\ log' = Append(log, LogEntry("INFO", "parse_meshroom_file: Done"))
  /\ meshroom_pc' = "done"
  /\ UNCHANGED <<mpc, meshroom_ifp, result_mesh_fp, sfmVars, mgVars, nvmVars, handles>>

NextMeshroom ==
  \/ ParseMeshroomFileBegin
  \/ NextMg
  \/ ParseMeshroomFileAfterMg
  \/ NextSfm
  \/ ParseMeshroomFileEnd

SpecMeshroom == InitMeshroom /\ [][NextMeshroom]_vars

\* ------------------------------------------------------------------ properties: NVM adapter
Max0(n) == IF n > 0 THEN n ELSE 0

\* which statement of parse_nvm_file consumed `line`, the last line read
LineRole ==
  LET N == Max0(amount_cameras)
  IN CASE pos = 0 -> "none"
       [] pos = 1 -> "header1"
       [] pos = 2 -> "header2"
       [] pos = 3 -> "amount_cameras"
       [] pos > 3 /\ pos <= 3 + N -> "camera"
       [] pos = 4 + N -> "separator"
       [] pos = 5 + N -> "amount_points"
       [] OTHER -> "point"

Failed == pc = "error" /\ cameras = <<>> /\ points = <<>>

\* the line, stripped of trailing whitespace, is exactly NVM_V3
ExactlyNVM(l) == l.toks = <<NVM_V3>> /\ ~l.lead

\* the line holds nothing but whitespace
Blank(l) == l.toks = <<>>

\* the line is (up to blanks around it) a non-negative decimal integer
NonNegativeInteger(l) == Len(l.toks) = 1 /\ l.toks[1].k = "int" /\ l.toks[1].v >= 0

\* C1 (as claimed): writing any cameras and points with write_nvm_file and parsing
\* the written text succeeds and gives back the cameras' rotation, center and focal
\* length and the points' coord, color and measurements, in the same order.
C1_RoundTrip ==
  mode = "roundtrip" =>
    /\ pc # "error"
    /\ pc = "done" =>
         /\ Len(cameras) = Len(inCameras)
         /\ \A i \in 1..Len(cameras) :
              /\ cameras[i].rotation = inCameras[i].rotation
              /\ cameras[i].center = inCameras[i].center
              /\ cameras[i].calibration_mat[1][1] = inCameras[i].calibration_mat[1][1]
         /\ Len(points) = Len(inPoints)
         /\ \A i \in 1..Len(points) :
              /\ points[i].coord = inPoints[i].coord
              /\ points[i].color = inPoints[i].color
              /\ points[i].measurements = inPoints[i].measurements

\* C2: when the first line is not exactly NVM_V3 (trailing whitespace aside), or the
\* second line is not blank, parse_nvm_file has failed on reading that line: it
\* returns nothing and no camera or point line has been read.
C2_HeaderRejected ==
  /\ (pos = 1 /\ ~ExactlyNVM(line)) => Failed
  /\ (pos = 2 /\ ~Blank(line)) => Failed

C2_Witness ==
  /\ pc = "error"
  /\ pos = 1
  /\ line.toks = <<NVM_V3, Word(4)>>

\* C3: a point line that declares K measurements and carries fewer than 4*K tokens
\* after the count makes the parse fail; a point that is returned has exactly the
\* declared number of measurements.
C3_ShortMeasurementList ==
  (LineRole = "point" /\ Len(line.toks) >= 7 /\ line.toks[7].k = "int") =>
    LET K == line.toks[7].v
    IN /\ (Len(line.toks) - 7 < 4 * K) => Failed
       /\ (pc # "error") =>
            /\ points # <<>>
            /\ Len(points[Len(points)].measurements) = Max0(K)

C3_Witness ==
  /\ LineRole = "point"
  /\ line = PointLine(2, 7)
  /\ Failed

\* C4 (as claimed): when the line after the blank separator is not a non-negative
\* integer (a missing line included), parse_nvm_file succeeds and returns the
\* cameras read and no points.
C4_NoPointSection ==
  (LineRole = "amount_points" /\ ~NonNegativeInteger(line)) =>
    /\ pc = "done"
    /\ points = <<>>
    /\ Len(cameras) = Max0(amount_cameras)

\* C5: every parsed camera has translation = -R * center for its rotation R, and
\* the camera just parsed has the (cx, cy, cz) fields of its line as center.
C5_Translation ==
  /\ \A i \in 1..Len(cameras) :
       \A j \in 1..3 :
         cameras[i].translation[j] =
           -( cameras[i].rotation[j][1] * cameras[i].center[1]
            + cameras[i].rotation[j][2] * cameras[i].center[2]
            + cameras[i].rotation[j][3] * cameras[i].center[3] )
  /\ (LineRole = "camera" /\ pc # "error") =>
       /\ cameras # <<>>
       /\ cameras[Len(cameras)].center =
            <<line.toks[7].v, line.toks[8].v, line.toks[9].v>>

C5_Witness ==
  \E i \in 1..Len(cameras) :
    /\ cameras[i].rotation = << <<0, 0, 1>>, <<1, 0, 0>>, <<0, 1, 0>> >>
    /\ cameras[i].center = <<1, 2, 3>>
    /\ cameras[i].translation = <<-3, -1, -2>>

\* ------------------------------------------------------------------ properties: Meshroom adapter
HasError == \E i \in 1..Len(log) : log[i].level = "ERROR"

\* one of the keys views, intrinsics, poses is missing from the document
KeyMissing == \E k \in {"views", "intrinsics", "poses"} : k \notin json_data.keys

\* the poseIds the entries of views carry
ViewPoseIds == {json_data.views[i].poseId : i \in 1..Len(json_data.views)}

\* C6: when 'views', 'intrinsics' or 'poses' is missing, camera parsing reports an
\* error through the log, raises nothing, and returns no camera and an empty map.
C6_MissingKeys ==
  (KeyMissing /\ mpc # "sfm_open") =>
    /\ mpc \in {"structure", "done"}
    /\ HasError
    /\ cams = <<>>
    /\ image_index_to_camera_index = <<>>

C6_Witness ==
  /\ json_data.keys = {"views", "intrinsics", "structure"}
  /\ json_data.views # <<>>
  /\ mpc = "done"
  /\ cams = <<>>

\* C7: with the three keys present, a pose whose poseId no view carries makes camera
\* parsing fail: it never gets past the loop over the poses and never builds a camera
\* for that pose; a camera list that is returned has one camera per pose, in pose
\* order, each for a poseId some view carries.
C7_PoseWithoutView ==
  ~KeyMissing =>
    /\ \A i \in 1..Len(cams) :
         /\ i <= Len(json_data.poses)
         /\ cams[i].view_index = json_data.poses[i].poseId
         /\ cams[i].view_index \in ViewPoseIds
    /\ (\E i \in 1..Len(json_data.poses) : json_data.poses[i].poseId \notin ViewPoseIds) =>
         mpc \in {"sfm_open", "poses", "fatal"}
    /\ mpc \in {"structure", "done"} => Len(cams) = Len(json_data.poses)

C7_Witness ==
  /\ ~KeyMissing
  /\ json_data.views = << [poseId |-> 1, intrinsicId |-> 1, path |-> 1] >>
  /\ json_data.intrinsics = << [intrinsicId |-> 1, pxFocalLength |-> 101] >>
  /\ Len(json_data.poses) = 2
  /\ json_data.poses[1].poseId = 1
  /\ json_data.poses[2].poseId = 2
  /\ mpc = "fatal"
  /\ cams = <<>>

\* the node T_n with n the largest number such that T_1 .. T_n are all in the graph
ExpectedLatest(node_type) ==
  LET full == {n \in Instances : \A m \in 1..n : Key(node_type, m) \in graph}
  IN IF full = {} THEN NoNode
     ELSE NodeRecord(Key(node_type, CHOOSE n \in full : \A m \in full : m <= n))

\* C8: a latest-node resolution (node number -1) of type T never fails; it resolves
\* to the node T_n with n the largest number such that T_1 .. T_n are all keys of the
\* graph, to no node when T_1 is no key, and its path, if any, is a file of that node.
C8_LatestNode ==
  \A i \in 1..Len(calls) :
    calls[i].node_number = -1 =>
      /\ ~calls[i].failed
      /\ calls[i].node = ExpectedLatest(calls[i].node_type)
      /\ calls[i].node = NoNode => calls[i].data_fp = NoPath
      /\ calls[i].data_fp # NoPath =>
           /\ calls[i].data_fp \in disk
           /\ calls[i].data_fp.nodeType = calls[i].node.nodeType
           /\ calls[i].data_fp.uid = calls[i].node.uid

\* StructureFromMotion_1 and _2 in the graph, only instance 2's file on disk
C8_Witness ==
  /\ mpc = "done"
  /\ sfm_node_type = "StructureFromMotionNode"
  /\ sfm_node_number = -1
  /\ Key("StructureFromMotion", 1) \in graph
  /\ Key("StructureFromMotion", 2) \in graph
  /\ DataFp(NodeRecord(Key("StructureFromMotion", 1)), "cameras.sfm") \notin disk
  /\ sfm_fp = DataFp(NodeRecord(Key("StructureFromMotion", 2)), "cameras.sfm")

\* C9: an explicit resolution (node number n # -1) of type T gives exactly the node
\* under key T_n when the key is in the graph; when it is not, an error is logged
\* and the call fails, giving neither a node nor not-found.
C9_ExplicitNode ==
  \A i \in 1..Len(calls) :
    calls[i].node_number # -1 =>
      IF Key(calls[i].node_type, calls[i].node_number) \in graph
        THEN /\ ~calls[i].failed
             /\ calls[i].node = NodeRecord(Key(calls[i].node_type, calls[i].node_number))
        ELSE /\ calls[i].failed
             /\ i = Len(calls)
             /\ mpc = "fatal"
             /\ log # <<>>
             /\ log[Len(log)].level = "ERROR"
             /\ sfm_fp = NoPath
             /\ mesh_fp = NoPath

C9_Witness ==
  /\ mpc = "fatal"
  /\ calls # <<>>
  /\ calls[Len(calls)].node_number = 1
  /\ calls[Len(calls)].failed
  /\ Key(calls[Len(calls)].node_type, 1) \notin graph
  /\ Key(calls[Len(calls)].node_type, 2) \in graph

\* the path node type T resolves to for node number num, not-found included
Resolved(node_type, num) ==
  LET node == IF num = -1 THEN ExpectedLatest(node_type)
              ELSE IF Key(node_type, num) \in graph
                     THEN NodeRecord(Key(node_type, num))
                     ELSE NoNode
  IN get_data_fp_of_node(disk, node, FileNames(node_type))

\* the path of the first node type of order that resolves, not-found when none does
RECURSIVE FirstResolved(_, _)
FirstResolved(order, num) ==
  IF order = <<>> THEN NoPath
  ELSE IF Resolved(Head(order), num) # NoPath THEN Resolved(Head(order), num)
  ELSE FirstResolved(Tail(order), num)

\* C10 (as claimed): with the AUTOMATIC selector and any node number, a node type
\* that does not resolve is passed over, and the result is the path of the first
\* type that resolves, in the order ConvertSfMFormat, StructureFromMotion for the
\* SfM file and Texturing, MeshFiltering, Meshing for the mesh file.
C10_Automatic ==
  /\ (sfm_node_type = "AUTOMATIC" /\ mpc # "sfm_node") =>
       /\ \A i \in 1..Len(calls) :
            calls[i].node_type \in {"ConvertSfMFormat", "StructureFromMotion"}
              => ~calls[i].failed
       /\ mpc \notin {"sfm_fallback", "fatal"} =>
            sfm_fp = FirstResolved(<<"ConvertSfMFormat", "StructureFromMotion">>,
                                   sfm_node_number)
  /\ (mesh_node_type = "AUTOMATIC" /\ mpc \in {"report", "done", "fatal"}) =>
       /\ \A i \in 1..Len(calls) :
            calls[i].node_type \in {"Texturing", "MeshFiltering", "Meshing"}
              => ~calls[i].failed
       /\ mpc # "fatal" =>
            mesh_fp = FirstResolved(<<"Texturing", "MeshFiltering", "Meshing">>,
                                    mesh_node_number)

\* the calls made for the node types of order, in the order they were made
CallsFor(order) ==
  SelectSeq(calls, LAMBDA c : c.node_type \in Range(order))

\* the key an explicit node number names is missing from the graph
KeyAbsent(c) == c.node_number # -1 /\ Key(c.node_type, c.node_number) \notin graph

\* the calls tried the types of order one after the other, went on after a type only
\* when it gave no path, and failed exactly on an explicit number whose key is missing
TriedInOrder(order) ==
  LET tried == CallsFor(order)
  IN /\ Len(tried) <= Len(order)
     /\ \A i \in 1..Len(tried) :
          /\ tried[i].node_type = order[i]
          /\ tried[i].failed <=> KeyAbsent(tried[i])
          /\ i < Len(tried) => (~tried[i].failed /\ tried[i].data_fp = NoPath)

\* C10 (amended): with the AUTOMATIC selector the node types are tried in the order
\* ConvertSfMFormat, StructureFromMotion (SfM file) and Texturing, MeshFiltering,
\* Meshing (mesh file).  With node number -1, and with an explicit number n as long
\* as the key T_n of every type tried is in the graph, a type that gives no existing
\* file is passed over and the result is the path of the first type that resolves,
\* not-found when none does.  With an explicit number n, the first tried type whose
\* key T_n is not in the graph ends the call with a logged error: nothing is returned.
C10_AutomaticAmended ==
  /\ (sfm_node_type = "AUTOMATIC" /\ mpc # "sfm_node") =>
       /\ TriedInOrder(<<"ConvertSfMFormat", "StructureFromMotion">>)
       /\ (\E i \in 1..Len(calls) : calls[i].failed) => (mpc = "fatal" /\ HasError)
       /\ mpc \notin {"sfm_fallback", "fatal"} =>
            sfm_fp = FirstResolved(<<"ConvertSfMFormat", "StructureFromMotion">>,
                                   sfm_node_number)
  /\ (mesh_node_type = "AUTOMATIC" /\ mpc \in {"report", "done", "fatal"}) =>
       /\ TriedInOrder(<<"Texturing", "MeshFiltering", "Meshing">>)
       /\ (\E i \in 1..Len(calls) : calls[i].failed) => (mpc = "fatal" /\ HasError)
       /\ mpc # "fatal" =>
            mesh_fp = FirstResolved(<<"Texturing", "MeshFiltering", "Meshing">>,
                                    mesh_node_number)

\* explicit number 2 for the SfM file: ConvertSfMFormat_2 has no file and is passed
\* over; latest for the mesh file: Texturing and MeshFiltering are passed over
C10_Witness ==
  /\ mpc = "done"
  /\ sfm_node_type = "AUTOMATIC"
  /\ mesh_node_type = "AUTOMATIC"
  /\ sfm_node_number = 2
  /\ mesh_node_number = -1
  /\ Len(calls) = 5
  /\ Key("ConvertSfMFormat", 2) \in graph
  /\ sfm_fp = DataFp(NodeRecord(Key("StructureFromMotion", 2)), "cameras.sfm")
  /\ Key("Texturing", 1) \in graph
  /\ mesh_fp = DataFp(NodeRecord(Key("Meshing", 1)), "mesh.obj")

\* ------------------------------------------------------------------ properties: lookups and points
\* the number of entries of data_list that carry query_id under id_string
Matches(data_list, id_string, query_id) ==
  Cardinality({j \in 1..Len(data_list) : data_list[j][id_string] = query_id})

\* C12 (as claimed): the lookup of a view by poseId and of an intrinsic by
\* intrinsicId needs exactly one match: a camera is built only when exactly one view
\* carries the pose's poseId and exactly one intrinsic carries the view's
\* intrinsicId; with no match or several matches the lookup fails and no camera is
\* built from it.
C12_UniqueLookup ==
  ~KeyMissing =>
    \A i \in 1..Len(cams) :
      /\ Matches(json_data.views, "poseId", cams[i].view_index) = 1
      /\ Matches(json_data.intrinsics, "intrinsicId", cams[i].intrinsicId) = 1

\* a report of level WARNING or ERROR about the missing 'structure' section
StructureReported ==
  \E i \in 1..Len(log) :
    /\ log[i].level \in {"WARNING", "ERROR"}
    /\ log[i].msg \notin {"FILE FORMAT ERROR: Incorrect SfM/JSON file"}

\* C13 (as claimed): parse_sfm_file on a document without 'structure' returns no
\* points and has reported the missing section through the log; with 'structure' it
\* returns one point per entry, in order, with the entry's landmarkId as id.
C13_StructureSection ==
  mpc = "done" =>
    IF "structure" \in json_data.keys
      THEN /\ Len(mpoints) = Len(json_data.structure)
           /\ \A i \in 1..Len(mpoints) : mpoints[i].id = json_data.structure[i].landmarkId
      ELSE /\ mpoints = <<>>
           /\ StructureReported

\* ------------------------------------------------------------------ properties: NVM counts
\* C15: when parse_nvm_file succeeds on a file declaring N >= 0 cameras, it returns
\* exactly N cameras and as many points as the point count it read, camera i and
\* point i (0-based, file order) having id i; a line read as a camera that has fewer
\* than 11 fields (a missing line included) or an 11th field other than 0, and a
\* line read as a point that has no measurement count (a missing line included),
\* make the parse fail.
C15_CountsAndIds ==
  /\ (pc = "done" /\ amount_cameras >= 0) =>
       /\ Len(cameras) = amount_cameras
       /\ \A i \in 1..Len(cameras) : cameras[i].id = i - 1
       /\ Len(points) = amount_points
       /\ \A i \in 1..Len(points) : points[i].id = i - 1
  /\ (LineRole = "camera" /\ Len(line.toks) < 11) => Failed
  /\ (LineRole = "camera" /\ Len(line.toks) >= 11 /\ line.toks[11].v # 0) => Failed
  /\ (LineRole = "point" /\ Len(line.toks) < 7) => Failed

C15_Witness ==
  /\ pc = "done"
  /\ amount_cameras = 2
  /\ amount_points = 2
  /\ Len(cameras) = 2
  /\ cameras[2].id = 1
  /\ Len(points) = 2
  /\ points[2].id = 1
  /\ Len(points[2].measurements) = 1

\* ------------------------------------------------------------------ properties: file handles
\* the calls that have ended, by the position of the adapters
ParseNvmFileEnded == pc \in {"done", "error"}
WriteNvmFileEnded == pc \notin {"idle", "write"}
ParseSfmFileEnded == mpc \in {"done", "fatal"}
ParseMgFileEnded ==
  mpc \notin {"idle", "sfm_node", "sfm_fallback", "mesh_node", "mesh_fallback1",
              "mesh_fallback2", "report"}

\* C14 (as claimed): a file opened by parse_nvm_file, write_nvm_file, parse_sfm_file
\* or parse_meshrom_mg_file is closed when that call has ended, whether it returned
\* or failed.
C14_HandlesReleased ==
  /\ ParseNvmFileEnded => "nvm_input_file" \notin handles
  /\ WriteNvmFileEnded => "nvm_output_file" \notin handles
  /\ ParseSfmFileEnded => "sfm_input_file" \notin handles
  /\ ParseMgFileEnded => "mg_file" \notin handles

\* ------------------------------------------------------------------ properties: parse_meshroom_file
\* positions of parse_meshrom_mg_file and of parse_sfm_file while they run
MgRunning ==
  {"sfm_node", "sfm_fallback", "mesh_node", "mesh_fallback1", "mesh_fallback2", "report"}
SfmRunning == {"sfm_open", "poses", "structure"}

\* nothing of the project graph or the cache folder has been looked at
GraphUntouched ==
  /\ calls = <<>>
  /\ inspected = {}
  /\ sfm_fp = NoPath
  /\ mesh_fp = NoPath
  /\ "mg_file" \notin handles

\* no SfM file has been opened or parsed
NothingParsed ==
  /\ SfmIdle
  /\ "sfm_input_file" \notin handles
  /\ \A i \in 1..Len(log) : log[i].msg # "parse_sfm_file: ..."

Warned ==
  \E i \in 1..Len(log) :
    /\ log[i].level = "WARNING"
    /\ log[i].msg = "Meshroom project does not contain cameras or points"

\* C11: once parse_meshroom_file has branched on the extension,
\*  - a file named .json or .sfm, in any case of letters, is handed to parse_sfm_file
\*    without the project graph being looked at, and the mesh path is None;
\*  - a file named .mg is handed to parse_meshrom_mg_file; when that has returned,
\*    the mesh path is the one it resolved, and the SfM file it resolved is handed to
\*    parse_sfm_file, or, when it resolved none, the call returns no cameras and no
\*    points, with the WARNING reported and no SfM file parsed;
\*  - any other extension fails the call before any file is opened or parsed.
C11_Dispatch ==
  meshroom_pc \notin {"idle", "begin"} =>
    IF meshroom_ifp.nodeType = "Given"
      THEN CASE meshroom_ifp.fn \in {".json", ".JSON", ".sfm"} ->
                  /\ meshroom_pc \in {"sfm", "done"}
                  /\ mpc \in SfmRunning \cup {"done", "fatal"}
                  /\ result_mesh_fp = NoPath
                  /\ GraphUntouched
                  /\ ~Warned
             [] meshroom_ifp.fn = ".mg" ->
                  /\ meshroom_pc = "mg"
                  /\ mpc \in MgRunning \cup {"done", "fatal"}
                  /\ NothingParsed
             [] OTHER ->
                  /\ meshroom_pc = "fatal"
                  /\ mpc = "idle"
                  /\ handles = {}
                  /\ GraphUntouched
                  /\ NothingParsed
      ELSE /\ meshroom_ifp = sfm_fp
           /\ result_mesh_fp = mesh_fp
           /\ IF sfm_fp = NoPath
                THEN /\ meshroom_pc = "done"
                     /\ cams = <<>>
                     /\ mpoints = <<>>
                     /\ Warned
                     /\ NothingParsed
                ELSE /\ meshroom_pc \in {"sfm", "done"}
                     /\ mpc \in SfmRunning \cup {"done", "fatal"}
                     /\ ~Warned
                     /\ meshroom_pc = "done" =>
                          \E i \in 1..Len(log) : log[i].msg = "parse_sfm_file: Done"

C11_Witness ==
  /\ meshroom_pc = "done"
  /\ meshroom_ifp = NoPath
  /\ result_mesh_fp = DataFp(NodeRecord(Key("Meshing", 2)), "mesh.obj")
  /\ Warned
  /\ cams = <<>>
  /\ mpoints = <<>>

====
